---- MODULE Spec2Model ----
(***************************************************************************)
(* A model of acht: the bounded blocking queue SyncQueue<T>                *)
(* (src/acht/SyncQueue.hpp) driven by client threads, the ThreadPool built *)
(* on it (src/acht/ThreadPool.hpp) and the Logger built on it              *)
(* (src/acht/Logger.hpp).  A behaviour is about one of them: the threads   *)
(* of the others are "absent" in it.                                       *)
(*                                                                         *)
(* Every queue method holds my_mutex from its first to its last statement, *)
(* or from its first statement to a condition_variable::wait and from the  *)
(* wake-up to its last statement.  Each such stretch is one atomic step.   *)
(***************************************************************************)
EXTENDS Integers, Sequences, FiniteSets, TLC

\* ------------------------------------------------------------------ bounds
MaxCap == 2          \* capacities range over 0..MaxCap
MaxItems == 3        \* put calls issued in one behaviour of the queue
MaxTasks == 2        \* tasks submitted in one behaviour of the pool

Threads == {"t1", "t2"}     \* client threads of the queue
Submitters == {"s1"}        \* the thread that submits tasks to the pool
Workers == {"w1", "w2"}     \* worker threads a pool can have
Callers == {"c1", "c2"}     \* threads calling shutdownNow
Starters == {"c1"}          \* the one of them that also calls start
WorkerSeq == <<"w1", "w2">> \* the order in which makeThreads creates them
LogClients == {"l1"}        \* the thread that calls Logger::write
LogAdmins == {"l2"}         \* the thread that stops, starts and reconfigures the logger
LogWriter == "lw"           \* the logger's write_thread
Getters == {"g1", "g2"}     \* threads calling getLogger and destroyLogger
Stoppers == Callers \cup LogAdmins   \* threads calling shutdownNow or Logger::stop
AllThreads == Threads \cup Submitters \cup Workers \cup Callers
                \cup LogClients \cup LogAdmins \cup {LogWriter} \cup Getters
Caps == 0..MaxCap
PoolCaps == 1..MaxCap       \* capacities given to a pool
Tasks == 1..MaxTasks
null == "null"

\* enum class Level { FATAL, ERROR, WARN, INFO, DEBUG }
FATAL == 0
ERROR == 1
WARN == 2
INFO == 3
DEBUG == 4
Levels == {FATAL, ERROR, WARN, INFO, DEBUG}
NoLevel == DEBUG + 1        \* no level argument

\* Logger(level, log_file_path = "out.log"): log_queue(100)
LogQueueSize == 100
DefaultPath == "out.log"
Openable == {"out.log", "new.log"}     \* paths an ofstream can be opened on
Paths == Openable \cup {"bad.log"}      \* and one on which open fails
InstanceSeq == <<"L1", "L2">>          \* the Logger objects, in the order of their construction
Instances == {"L1", "L2"}              \* (two getLogger callers construct two at most)
NoStream == [path |-> null, open |-> FALSE]
NotHeld == [state |-> "none", path |-> null, open |-> FALSE]
Live == [state |-> "live", path |-> null, open |-> FALSE]

\* ------------------------------------------------------------------- state
VARIABLES
    my_queue,        \* std::queue<T> my_queue, head first
    queue_max_size,  \* int queue_max_size
    need_to_stop,    \* bool need_to_stop
    not_empty,       \* threads asleep in not_empty.wait
    not_full,        \* threads asleep in not_full.wait
    pc,              \* per thread, where it is: a client is "idle", "waiting" (inside a
                     \* wait loop of the queue) or "done" (its call has returned); a worker
                     \* is "absent", "loop", "calling", "waiting", "done", "exec" or
                     \* "finished"; a caller is also at "sd_set", "sd_stop", "sd_join",
                     \* "sd_clear", "st_start" or "st_setmax"; a thread inside a Logger
                     \* method is at "wr_put", "ls_set", "ls_stop", "ls_join", "lg_queue",
                     \* "sp_new", "sp_open", "gl_new", "gl_assign", "gl_level" or "gl_ret",
                     \* the write_thread also at "lw_test", "lw_deref" or "lw_append";
                     \* "terminated" once the process has been ended
    op,              \* per thread: the method it is in or has just returned from
    elem,            \* per thread: the argument of put, or <<numThreads, maxTask>> of the
                     \* pool's start (0: none)
    ret,             \* per thread: the value returned ("none","void","true","false")
    out,             \* per thread: what take / takeAll stored in its out-parameter, or
                     \* the Logger that getLogger has constructed or returns
    issued,          \* number of put calls made so far (items are numbered by call)
    inserted,        \* history: items in the order putHelper emplaced them
    taken,           \* history: items in the order successful take calls returned them
    bulk,            \* history: clear or a successful takeAll has removed items
    lowered,         \* history: setMaxSize has set the capacity below the length
    shutdown,        \* std::atomic<bool> shutdown
    myThreads,       \* std::vector<std::shared_ptr<std::thread>> myThreads
    idx,             \* per caller: position of shutdownNow's range-for in myThreads
    last,            \* per caller: the end of that range-for, fixed when the loop starts
    joinable,        \* per worker: std::thread::joinable() of its handle
    runs,            \* history: per task, how many times a worker has run it
    joins,           \* history: per worker, join calls made on its handle since the last start
    clears,          \* history: myThreads.clear() calls since the last start
    before,          \* history: per stopper, the tasks (records) whose submit (write) had
                     \* returned when it called shutdownNow (Logger::stop)
    broadcasts,      \* history: stop() calls that ran their notify_all since the queue last started
    my_logger,       \* static std::shared_ptr<Logger> my_logger: null or an instance
    created,         \* history: Logger objects constructed since the last destroyLogger
    my_level,        \* per instance: std::atomic<Level> my_level
    my_log_file_path,      \* std::string my_log_file_path
    log_file_stream,       \* std::shared_ptr<std::ofstream> log_file_stream: NoStream (nullptr)
                           \* or the ofstream [path, open] it points to
    write_thread,          \* std::shared_ptr<std::thread> write_thread: null or the thread
    logger_need_to_stop,   \* std::atomic<bool> need_to_stop of the Logger
    files,           \* per path: the records appended to the file, oldest first
    held,            \* the ofstream operator* gave the writer: none, the live one (which
                     \* log_file_stream points to), or a destroyed one as it was at its end
    lvl,             \* per thread: the level argument of write / getLogger (NoLevel: none)
    myQueue,         \* SynchronousQueue: std::queue<T> myQueue, head first
    queueMaxSize,    \* SynchronousQueue: int queueMaxSize
    needToStop,      \* SynchronousQueue: bool needToStop
    notEmpty,        \* SynchronousQueue: threads asleep in notEmpty.wait
    notFull,         \* SynchronousQueue: threads asleep in notFull.wait
    pcS,             \* per thread, where it is in its call on the SynchronousQueue
    retS,            \* per thread: the value that call returned
    outS             \* per thread: what that call stored in its out-parameter

qvars == <<my_queue, queue_max_size, need_to_stop, not_empty, not_full>>
tvars == <<pc, op, elem, ret, out>>
hvars == <<inserted, taken, bulk, lowered>>
pvars == <<shutdown, myThreads, idx, last, joinable, runs, joins, clears, before>>
lstate == <<my_logger, created, my_level, my_log_file_path, log_file_stream,
            write_thread, logger_need_to_stop, files, held>>
lvars == <<lstate, lvl>>
svars == <<myQueue, queueMaxSize, needToStop, notEmpty, notFull, pcS, retS, outS>>
vars == <<qvars, tvars, issued, hvars, pvars, broadcasts, lvars, svars>>

\* ----------------------------------------------------------------- helpers
\* a comparison that lets the queue grow one past its capacity
fullGreater == Len(my_queue) > queue_max_size

\* full(): my_queue.size() == queue_max_size (capacities are taken from
\* Caps, so the int is never negative when it is compared with the size_t)
full == Len(my_queue) = queue_max_size

\* empty(): my_queue.size() == 0
empty == Len(my_queue) = 0

\* the newest element instead of the oldest
back(q) == q[Len(q)]

\* my_queue.front()
front(q) == Head(q)

\* a pop that removes nothing
popNothing(q) == q

\* my_queue.pop()
pop(q) == Tail(q)

\* my_queue.emplace(elem)
emplace(q, e) == Append(q, e)

\* condition_variable::notify_one: wakes one of the sleeping threads, any of them
notify_one(cv) == IF cv = {} THEN {cv} ELSE {cv \ {w} : w \in cv}

\* a notify_all that wakes nobody
notify_none(cv) == cv

\* condition_variable::notify_all: wakes every sleeping thread
notify_all(cv) == {}

\* the thread's call returns r, having stored o in its out-parameter
Returns(t, o, r) ==
    /\ pc' = [pc EXCEPT ![t] = "done"]
    /\ ret' = [ret EXCEPT ![t] = r]
    /\ out' = [out EXCEPT ![t] = o]

\* the thread goes to sleep in a wait loop of method m
Sleeps(t, m, e) ==
    /\ pc' = [pc EXCEPT ![t] = "waiting"]
    /\ op' = [op EXCEPT ![t] = m]
    /\ elem' = [elem EXCEPT ![t] = e]
    /\ UNCHANGED <<ret, out>>

\* -------------------------------------------------------------- SyncQueue
\* putHelper without its "if (need_to_stop) return"
putHelperNoStopCheck(t, e) ==
    IF ~need_to_stop /\ full
    THEN /\ not_full' = not_full \cup {t}
         /\ Sleeps(t, "put", e)
         /\ UNCHANGED <<my_queue, queue_max_size, need_to_stop, not_empty, hvars>>
    ELSE /\ op' = [op EXCEPT ![t] = "put"]
         /\ elem' = [elem EXCEPT ![t] = e]
         /\ Returns(t, <<>>, "void")
         /\ my_queue' = emplace(my_queue, e)
         /\ not_empty' \in notify_one(not_empty)
         /\ inserted' = Append(inserted, e)
         /\ UNCHANGED <<queue_max_size, need_to_stop, not_full,
                        taken, bulk, lowered>>

\* putHelper from the top of its while loop, the mutex held
putHelper(t, e) ==
    IF ~need_to_stop /\ full
    THEN /\ not_full' = not_full \cup {t}
         /\ Sleeps(t, "put", e)
         /\ UNCHANGED <<my_queue, queue_max_size, need_to_stop, not_empty, hvars>>
    ELSE /\ op' = [op EXCEPT ![t] = "put"]
         /\ elem' = [elem EXCEPT ![t] = e]
         /\ Returns(t, <<>>, "void")
         /\ IF need_to_stop
            THEN UNCHANGED <<qvars, hvars>>
            ELSE /\ my_queue' = emplace(my_queue, e)
                 /\ not_empty' \in notify_one(not_empty)
                 /\ inserted' = Append(inserted, e)
                 /\ UNCHANGED <<queue_max_size, need_to_stop, not_full,
                                taken, bulk, lowered>>

\* take(elem, blocking) from the top, or from the top of its while loop
take(t, blocking) ==
    IF blocking /\ ~need_to_stop /\ empty
    THEN /\ not_empty' = not_empty \cup {t}
         /\ Sleeps(t, "take", 0)
         /\ UNCHANGED <<my_queue, queue_max_size, need_to_stop, not_full, hvars>>
    ELSE /\ op' = [op EXCEPT ![t] = "take"]
         /\ UNCHANGED elem
         /\ IF (~blocking /\ empty) \/ need_to_stop
            THEN /\ Returns(t, <<>>, "false")
                 /\ UNCHANGED <<qvars, hvars>>
            ELSE /\ Returns(t, <<front(my_queue)>>, "true")
                 /\ my_queue' = pop(my_queue)
                 /\ not_full' \in notify_one(not_full)
                 /\ taken' = Append(taken, front(my_queue))
                 /\ UNCHANGED <<queue_max_size, need_to_stop, not_empty,
                                inserted, bulk, lowered>>

\* a takeAll that moves the head only
takeAllHead(t, blocking) ==
    IF blocking /\ ~need_to_stop /\ empty
    THEN /\ not_empty' = not_empty \cup {t}
         /\ Sleeps(t, "takeAll", 0)
         /\ UNCHANGED <<my_queue, queue_max_size, need_to_stop, not_full, hvars>>
    ELSE /\ op' = [op EXCEPT ![t] = "takeAll"]
         /\ UNCHANGED elem
         /\ IF (~blocking /\ empty) \/ need_to_stop
            THEN /\ Returns(t, <<>>, "false")
                 /\ UNCHANGED <<qvars, hvars>>
            ELSE /\ Returns(t, <<front(my_queue)>>, "true")
                 /\ my_queue' = pop(my_queue)
                 /\ not_full' \in notify_one(not_full)
                 /\ bulk' = TRUE
                 /\ UNCHANGED <<queue_max_size, need_to_stop, not_empty,
                                inserted, taken, lowered>>

\* takeAll(other_queue, blocking) from the top, or from the top of its while
\* loop; the moved-from my_queue is empty
takeAll(t, blocking) ==
    IF blocking /\ ~need_to_stop /\ empty
    THEN /\ not_empty' = not_empty \cup {t}
         /\ Sleeps(t, "takeAll", 0)
         /\ UNCHANGED <<my_queue, queue_max_size, need_to_stop, not_full, hvars>>
    ELSE /\ op' = [op EXCEPT ![t] = "takeAll"]
         /\ UNCHANGED elem
         /\ IF (~blocking /\ empty) \/ need_to_stop
            THEN /\ Returns(t, <<>>, "false")
                 /\ UNCHANGED <<qvars, hvars>>
            ELSE /\ Returns(t, my_queue, "true")
                 /\ my_queue' = <<>>
                 /\ not_full' \in notify_one(not_full)
                 /\ bulk' = TRUE
                 /\ UNCHANGED <<queue_max_size, need_to_stop, not_empty,
                                inserted, taken, lowered>>

\* a start() that leaves the queue stopped
startKeepsStopped == UNCHANGED <<qvars, broadcasts>>

\* start()
start ==
    /\ need_to_stop' = (IF need_to_stop THEN FALSE ELSE need_to_stop)
    /\ broadcasts' = (IF need_to_stop THEN 0 ELSE broadcasts)
    /\ UNCHANGED <<my_queue, queue_max_size, not_empty, not_full>>

\* stop() without its "if (!need_to_stop)"
stopUnguarded ==
    /\ need_to_stop' = TRUE
    /\ not_full' = notify_all(not_full)
    /\ not_empty' = notify_all(not_empty)
    /\ broadcasts' = broadcasts + 1
    /\ UNCHANGED <<my_queue, queue_max_size>>

\* stop()
stop ==
    IF ~need_to_stop
    THEN /\ need_to_stop' = TRUE
         /\ not_full' = notify_all(not_full)
         /\ not_empty' = notify_all(not_empty)
         /\ broadcasts' = broadcasts + 1
         /\ UNCHANGED <<my_queue, queue_max_size>>
    ELSE UNCHANGED <<qvars, broadcasts>>

\* setMaxSize(maxSize)
setMaxSize(n) ==
    /\ queue_max_size' = n
    /\ UNCHANGED <<my_queue, need_to_stop, not_empty, not_full>>

\* clear()
clear ==
    /\ my_queue' = <<>>
    /\ UNCHANGED <<queue_max_size, need_to_stop, not_empty, not_full>>

\* ------------------------------------------------- client threads' actions
Put(t) ==
    /\ pc[t] = "idle"
    /\ issued < MaxItems
    /\ issued' = issued + 1
    /\ putHelper(t, issued + 1)
    /\ UNCHANGED pvars
    /\ UNCHANGED <<broadcasts, lvars>>
    /\ UNCHANGED svars

Take(t) ==
    /\ pc[t] = "idle"
    /\ \E blocking \in BOOLEAN : take(t, blocking)
    /\ UNCHANGED <<issued, pvars>>
    /\ UNCHANGED <<broadcasts, lvars>>
    /\ UNCHANGED svars

TakeAll(t) ==
    /\ pc[t] = "idle"
    /\ \E blocking \in BOOLEAN : takeAll(t, blocking)
    /\ UNCHANGED <<issued, pvars>>
    /\ UNCHANGED <<broadcasts, lvars>>
    /\ UNCHANGED svars

\* a notified (or spuriously woken) thread re-acquires the mutex and goes on
Resume(t) ==
    /\ pc[t] = "waiting"
    /\ t \notin not_full \cup not_empty
    /\ \/ op[t] = "put" /\ putHelper(t, elem[t])
       \/ op[t] = "take" /\ take(t, TRUE)
       \/ op[t] = "takeAll" /\ takeAll(t, TRUE)
    /\ UNCHANGED <<issued, pvars>>
    /\ UNCHANGED <<broadcasts, lvars>>
    /\ UNCHANGED svars

\* condition_variable::wait may return without a notification
SpuriousWakeup(t) ==
    /\ pc[t] = "waiting"
    /\ t \in not_full \cup not_empty
    /\ not_full' = not_full \ {t}
    /\ not_empty' = not_empty \ {t}
    /\ UNCHANGED <<my_queue, queue_max_size, need_to_stop, tvars, issued, hvars, pvars>>
    /\ UNCHANGED <<broadcasts, lvars>>
    /\ UNCHANGED svars

Start(t) ==
    /\ pc[t] = "idle"
    /\ start
    /\ op' = [op EXCEPT ![t] = "start"]
    /\ Returns(t, <<>>, "void")
    /\ UNCHANGED <<elem, issued, hvars, pvars>>
    /\ UNCHANGED lvars
    /\ UNCHANGED svars

Stop(t) ==
    /\ pc[t] = "idle"
    /\ stop
    /\ op' = [op EXCEPT ![t] = "stop"]
    /\ Returns(t, <<>>, "void")
    /\ UNCHANGED <<elem, issued, hvars, pvars>>
    /\ UNCHANGED lvars
    /\ UNCHANGED svars

SetMaxSize(t) ==
    /\ pc[t] = "idle"
    /\ \E n \in Caps :
        /\ setMaxSize(n)
        /\ lowered' = (lowered \/ n < Len(my_queue))
    /\ UNCHANGED <<tvars, issued, inserted, taken, bulk, pvars>>
    /\ UNCHANGED <<broadcasts, lvars>>
    /\ UNCHANGED svars

Clear(t) ==
    /\ pc[t] = "idle"
    /\ clear
    /\ bulk' = (bulk \/ my_queue # <<>>)
    /\ UNCHANGED <<tvars, issued, inserted, taken, lowered, pvars>>
    /\ UNCHANGED <<broadcasts, lvars>>
    /\ UNCHANGED svars

\* the caller picks up the result and is free to make its next call
Return(t) ==
    /\ pc[t] = "done"
    /\ pc' = [pc EXCEPT ![t] = "idle"]
    /\ op' = [op EXCEPT ![t] = "none"]
    /\ elem' = [elem EXCEPT ![t] = 0]
    /\ ret' = [ret EXCEPT ![t] = "none"]
    /\ out' = [out EXCEPT ![t] = <<>>]
    /\ lvl' = [lvl EXCEPT ![t] = NoLevel]
    /\ before' = [c \in Stoppers |-> IF c = t THEN {} ELSE before[c]]
    /\ UNCHANGED <<qvars, issued, hvars,
                   shutdown, myThreads, idx, last, joinable, runs, joins, clears>>
    /\ UNCHANGED <<broadcasts, lstate>>
    /\ UNCHANGED svars

\* SyncQueue(maxSize): need_to_stop(false), an empty std::queue, nobody asleep
\* (queue_max_size(maxSize) is set by each Init below)
InitQueue ==
    /\ my_queue = <<>>
    /\ need_to_stop = FALSE
    /\ not_empty = {}
    /\ not_full = {}
    /\ op = [t \in AllThreads |-> "none"]
    /\ elem = [t \in AllThreads |-> 0]
    /\ ret = [t \in AllThreads |-> "none"]
    /\ out = [t \in AllThreads |-> <<>>]
    /\ issued = 0
    /\ inserted = <<>>
    /\ taken = <<>>
    /\ bulk = FALSE
    /\ lowered = FALSE
    /\ idx = [c \in Callers |-> 0]
    /\ last = [c \in Callers |-> 0]
    /\ runs = [k \in Tasks |-> 0]
    /\ joins = [w \in Workers |-> 0]
    /\ clears = 0
    /\ before = [c \in Stoppers |-> {}]
    /\ broadcasts = 0

\* no SynchronousQueue has been constructed
InitNoSynchronousQueue ==
    /\ myQueue = <<>>
    /\ queueMaxSize = 0
    /\ needToStop = FALSE
    /\ notEmpty = {}
    /\ notFull = {}
    /\ pcS = [t \in AllThreads |-> "absent"]
    /\ retS = [t \in AllThreads |-> "none"]
    /\ outS = [t \in AllThreads |-> <<>>]

\* no Logger has been constructed: static initialisation, my_logger = nullptr
InitNoLogger ==
    /\ my_logger = null
    /\ created = 0
    /\ my_level = [i \in Instances |-> DEBUG]
    /\ my_log_file_path = null
    /\ log_file_stream = NoStream
    /\ write_thread = null
    /\ logger_need_to_stop = FALSE
    /\ files = [p \in Paths |-> <<>>]
    /\ held = NotHeld
    /\ lvl = [t \in AllThreads |-> NoLevel]

\* no ThreadPool has been constructed
InitNoPool ==
    /\ shutdown = FALSE
    /\ myThreads = <<>>
    /\ joinable = [w \in Workers |-> FALSE]

\* a queue on its own: no pool, no logger, the client threads only
Init ==
    /\ InitQueue
    /\ queue_max_size \in Caps
    /\ pc = [t \in AllThreads |-> IF t \in Threads THEN "idle" ELSE "absent"]
    /\ InitNoPool
    /\ InitNoLogger
    /\ InitNoSynchronousQueue

Next ==
    \E t \in Threads :
        \/ Put(t)
        \/ Take(t)
        \/ TakeAll(t)
        \/ Resume(t)
        \/ SpuriousWakeup(t)
        \/ Start(t)
        \/ Stop(t)
        \/ SetMaxSize(t)
        \/ Clear(t)
        \/ Return(t)

Spec == Init /\ [][Next]_vars

\* ------------------------------------------------------- SynchronousQueue
\* The class SynchronousQueue, with its own members and each thread's place
\* in its call on it (the call and its argument are op and elem, as for the
\* SyncQueue).

\* a full() that lets the queue grow one past its capacity
fullSGreater == Len(myQueue) > queueMaxSize

\* full(): myQueue.size() == queueMaxSize
fullS == Len(myQueue) = queueMaxSize

\* empty(): myQueue.size() == 0
emptyS == Len(myQueue) = 0

\* the thread's call on the SynchronousQueue returns r, having stored o
ReturnsS(t, o, r) ==
    /\ pcS' = [pcS EXCEPT ![t] = "done"]
    /\ retS' = [retS EXCEPT ![t] = r]
    /\ outS' = [outS EXCEPT ![t] = o]

\* the thread goes to sleep in a wait loop of the SynchronousQueue
SleepsS(t) ==
    /\ pcS' = [pcS EXCEPT ![t] = "waiting"]
    /\ UNCHANGED <<retS, outS>>

\* putHelper from the top of its while loop, the mutex held
putHelperS(t, e) ==
    IF ~needToStop /\ fullS
    THEN /\ notFull' = notFull \cup {t}
         /\ SleepsS(t)
         /\ UNCHANGED <<myQueue, queueMaxSize, needToStop, notEmpty>>
    ELSE /\ ReturnsS(t, <<>>, "void")
         /\ IF needToStop
            THEN UNCHANGED <<myQueue, queueMaxSize, needToStop, notEmpty, notFull>>
            ELSE /\ myQueue' = emplace(myQueue, e)
                 /\ notEmpty' \in notify_one(notEmpty)
                 /\ UNCHANGED <<queueMaxSize, needToStop, notFull>>

\* take(elem, Blocking) from the top, or from the top of its while loop
takeS(t, Blocking) ==
    IF Blocking /\ ~needToStop /\ emptyS
    THEN /\ notEmpty' = notEmpty \cup {t}
         /\ SleepsS(t)
         /\ UNCHANGED <<myQueue, queueMaxSize, needToStop, notFull>>
    ELSE IF (~Blocking /\ emptyS) \/ needToStop
         THEN /\ ReturnsS(t, <<>>, "false")
              /\ UNCHANGED <<myQueue, queueMaxSize, needToStop, notEmpty, notFull>>
         ELSE /\ ReturnsS(t, <<front(myQueue)>>, "true")
              /\ myQueue' = pop(myQueue)
              /\ notFull' \in notify_one(notFull)
              /\ UNCHANGED <<queueMaxSize, needToStop, notEmpty>>

\* takeAll(otherQueue, Blocking) from the top, or from the top of its while
\* loop; the moved-from myQueue is empty
takeAllS(t, Blocking) ==
    IF Blocking /\ ~needToStop /\ emptyS
    THEN /\ notEmpty' = notEmpty \cup {t}
         /\ SleepsS(t)
         /\ UNCHANGED <<myQueue, queueMaxSize, needToStop, notFull>>
    ELSE IF (~Blocking /\ emptyS) \/ needToStop
         THEN /\ ReturnsS(t, <<>>, "false")
              /\ UNCHANGED <<myQueue, queueMaxSize, needToStop, notEmpty, notFull>>
         ELSE /\ ReturnsS(t, myQueue, "true")
              /\ myQueue' = <<>>
              /\ notFull' \in notify_one(notFull)
              /\ UNCHANGED <<queueMaxSize, needToStop, notEmpty>>

\* start()
startS ==
    /\ needToStop' = (IF needToStop THEN FALSE ELSE needToStop)
    /\ UNCHANGED <<myQueue, queueMaxSize, notEmpty, notFull>>

\* stop()
stopS ==
    IF ~needToStop
    THEN /\ needToStop' = TRUE
         /\ notFull' = notify_all(notFull)
         /\ notEmpty' = notify_all(notEmpty)
         /\ UNCHANGED <<myQueue, queueMaxSize>>
    ELSE UNCHANGED <<myQueue, queueMaxSize, needToStop, notEmpty, notFull>>

\* setMaxSize(maxSize)
setMaxSizeS(n) ==
    /\ queueMaxSize' = n
    /\ UNCHANGED <<myQueue, needToStop, notEmpty, notFull>>

\* clear(): pop until the queue is empty
clearS ==
    /\ myQueue' = <<>>
    /\ UNCHANGED <<queueMaxSize, needToStop, notEmpty, notFull>>

\* the four observers of each class
Observers == {"getSize", "isFull", "isEmpty", "getMaxSize"}

\* SyncQueue: getSize(), isFull(), isEmpty(), getMaxSize()
observe(m) ==
    CASE m = "getSize" -> <<Len(my_queue)>>
      [] m = "isFull" -> <<Len(my_queue) = queue_max_size>>
      [] m = "isEmpty" -> <<Len(my_queue) = 0>>
      [] m = "getMaxSize" -> <<queue_max_size>>

\* SynchronousQueue: getSize(), isFull(), isEmpty(), getMaxSize()
observeS(m) ==
    CASE m = "getSize" -> <<Len(myQueue)>>
      [] m = "isFull" -> <<Len(myQueue) = queueMaxSize>>
      [] m = "isEmpty" -> <<Len(myQueue) = 0>>
      [] m = "getMaxSize" -> <<queueMaxSize>>

\* ------------------------------------ the two queues driven side by side
\* Every call is made on both queues with the same arguments, and the
\* scheduler treats both alike: a thread wakes up and goes on in both at once,
\* and where both queues notify one of the same sleepers, the same one wakes
\* (a step in which only one queue wakes somebody is not excluded).
SameWakeups ==
    /\ (not_empty = notEmpty /\ not_empty' # not_empty /\ notEmpty' # notEmpty) =>
            not_empty' = notEmpty'
    /\ (not_full = notFull /\ not_full' # not_full /\ notFull' # notFull) =>
            not_full' = notFull'

BothPut(t) ==
    /\ pc[t] = "idle"
    /\ issued < MaxItems
    /\ issued' = issued + 1
    /\ putHelper(t, issued + 1)
    /\ putHelperS(t, issued + 1)
    /\ SameWakeups
    /\ UNCHANGED <<pvars, broadcasts, lvars>>

BothTake(t) ==
    /\ pc[t] = "idle"
    /\ \E blocking \in BOOLEAN : take(t, blocking) /\ takeS(t, blocking)
    /\ SameWakeups
    /\ UNCHANGED <<issued, pvars, broadcasts, lvars>>

BothTakeAll(t) ==
    /\ pc[t] = "idle"
    /\ \E blocking \in BOOLEAN : takeAll(t, blocking) /\ takeAllS(t, blocking)
    /\ SameWakeups
    /\ UNCHANGED <<issued, pvars, broadcasts, lvars>>

\* a woken thread re-acquires each mutex and goes on in its wait loop
BothResume(t) ==
    /\ pc[t] = "waiting"
    /\ t \notin not_full \cup not_empty
    /\ \/ op[t] = "put" /\ putHelper(t, elem[t]) /\ putHelperS(t, elem[t])
       \/ op[t] = "take" /\ take(t, TRUE) /\ takeS(t, TRUE)
       \/ op[t] = "takeAll" /\ takeAll(t, TRUE) /\ takeAllS(t, TRUE)
    /\ SameWakeups
    /\ UNCHANGED <<issued, pvars, broadcasts, lvars>>

\* both waits return without a notification
BothSpuriousWakeup(t) ==
    /\ pc[t] = "waiting"
    /\ t \in not_full \cup not_empty
    /\ not_full' = not_full \ {t}
    /\ not_empty' = not_empty \ {t}
    /\ notFull' = notFull \ {t}
    /\ notEmpty' = notEmpty \ {t}
    /\ UNCHANGED <<my_queue, queue_max_size, need_to_stop, tvars, issued, hvars,
                   pvars, broadcasts, lvars,
                   myQueue, queueMaxSize, needToStop, pcS, retS, outS>>

BothStart(t) ==
    /\ pc[t] = "idle"
    /\ start
    /\ startS
    /\ op' = [op EXCEPT ![t] = "start"]
    /\ Returns(t, <<>>, "void")
    /\ ReturnsS(t, <<>>, "void")
    /\ UNCHANGED <<elem, issued, hvars, pvars, lvars>>

BothStop(t) ==
    /\ pc[t] = "idle"
    /\ stop
    /\ stopS
    /\ op' = [op EXCEPT ![t] = "stop"]
    /\ Returns(t, <<>>, "void")
    /\ ReturnsS(t, <<>>, "void")
    /\ UNCHANGED <<elem, issued, hvars, pvars, lvars>>

BothSetMaxSize(t) ==
    /\ pc[t] = "idle"
    /\ \E n \in Caps :
        /\ setMaxSize(n)
        /\ setMaxSizeS(n)
        /\ lowered' = (lowered \/ n < Len(my_queue))
    /\ UNCHANGED <<tvars, issued, inserted, taken, bulk, pvars, broadcasts, lvars,
                   pcS, retS, outS>>

BothClear(t) ==
    /\ pc[t] = "idle"
    /\ clear
    /\ clearS
    /\ bulk' = (bulk \/ my_queue # <<>>)
    /\ UNCHANGED <<tvars, issued, inserted, taken, lowered, pvars, broadcasts, lvars,
                   pcS, retS, outS>>

\* getSize(), isFull(), isEmpty() or getMaxSize(), on both
BothObserve(t) ==
    /\ pc[t] = "idle"
    /\ \E m \in Observers :
        /\ op' = [op EXCEPT ![t] = m]
        /\ Returns(t, observe(m), "value")
        /\ ReturnsS(t, observeS(m), "value")
    /\ UNCHANGED <<qvars, elem, issued, hvars, pvars, broadcasts, lvars,
                   myQueue, queueMaxSize, needToStop, notEmpty, notFull>>

\* the caller picks up both results and is free to make its next call
BothReturn(t) ==
    /\ pc[t] = "done"
    /\ pc' = [pc EXCEPT ![t] = "idle"]
    /\ op' = [op EXCEPT ![t] = "none"]
    /\ elem' = [elem EXCEPT ![t] = 0]
    /\ ret' = [ret EXCEPT ![t] = "none"]
    /\ out' = [out EXCEPT ![t] = <<>>]
    /\ pcS' = [pcS EXCEPT ![t] = "idle"]
    /\ retS' = [retS EXCEPT ![t] = "none"]
    /\ outS' = [outS EXCEPT ![t] = <<>>]
    /\ UNCHANGED <<qvars, issued, hvars, pvars, broadcasts, lvars,
                   myQueue, queueMaxSize, needToStop, notEmpty, notFull>>

\* SynchronousQueue(maxSize): queueMaxSize(maxSize), needToStop(false), an
\* empty std::queue, nobody asleep
InitSynchronousQueue(maxSize) ==
    /\ myQueue = <<>>
    /\ queueMaxSize = maxSize
    /\ needToStop = FALSE
    /\ notEmpty = {}
    /\ notFull = {}
    /\ retS = [t \in AllThreads |-> "none"]
    /\ outS = [t \in AllThreads |-> <<>>]

\* a SyncQueue and a SynchronousQueue constructed with the same maxSize
InitBoth ==
    /\ InitQueue
    /\ queue_max_size \in Caps
    /\ pc = [t \in AllThreads |-> IF t \in Threads THEN "idle" ELSE "absent"]
    /\ InitNoPool
    /\ InitNoLogger
    /\ InitSynchronousQueue(queue_max_size)
    /\ pcS = pc

NextBoth ==
    \E t \in Threads :
        \/ BothPut(t)
        \/ BothTake(t)
        \/ BothTakeAll(t)
        \/ BothResume(t)
        \/ BothSpuriousWakeup(t)
        \/ BothStart(t)
        \/ BothStop(t)
        \/ BothSetMaxSize(t)
        \/ BothClear(t)
        \/ BothObserve(t)
        \/ BothReturn(t)

SpecBoth == InitBoth /\ [][NextBoth]_vars

\* -------------------------------------------------------------- ThreadPool
\* The pool's queue myTasks is the queue above; its capacity is set by the
\* constructor and by start.  start is not called while another thread is
\* inside start or shutdownNow (which thread calls it is then immaterial);
\* shutdownNow may be called at any time, by two threads at once too.
Range(q) == {q[i] : i \in 1..Len(q)}

\* no other thread is inside shutdownNow or start
Quiet(c) == \A d \in Callers \ {c} : pc[d] \in {"idle", "done"}

\* a makeThreads that creates no thread
makeThreadsNone(n, pcs) ==
    /\ pc' = pcs
    /\ UNCHANGED <<myThreads, joinable, joins>>

\* makeThreads(numThreads): numThreads new threads, each about to enter run();
\* the other threads are where pcs puts them
makeThreads(n, pcs) ==
    /\ myThreads' = myThreads \o SubSeq(WorkerSeq, 1, n)
    /\ pc' = [t \in AllThreads |->
                IF t \in Range(SubSeq(WorkerSeq, 1, n)) THEN "loop" ELSE pcs[t]]
    /\ joinable' = [w \in Workers |->
                IF w \in Range(SubSeq(WorkerSeq, 1, n)) THEN TRUE ELSE joinable[w]]
    /\ joins' = [w \in Workers |-> 0]

\* run(): while (!shutdown)
RunCheck(w) ==
    /\ pc[w] = "loop"
    /\ pc' = [pc EXCEPT ![w] = IF shutdown THEN "finished" ELSE "calling"]
    /\ UNCHANGED <<qvars, op, elem, ret, out, issued, hvars, pvars>>
    /\ UNCHANGED <<broadcasts, lvars>>
    /\ UNCHANGED svars

\* run(): myTasks.take(task)
RunTake(w) ==
    /\ pc[w] = "calling"
    /\ take(w, TRUE)
    /\ UNCHANGED <<issued, pvars>>
    /\ UNCHANGED <<broadcasts, lvars>>
    /\ UNCHANGED svars

\* run(): if (take returned true) the task is about to be called
RunAfterTake(w) ==
    /\ pc[w] = "done"
    /\ pc' = [pc EXCEPT ![w] = IF ret[w] = "true" THEN "exec" ELSE "loop"]
    /\ op' = [op EXCEPT ![w] = "none"]
    /\ ret' = [ret EXCEPT ![w] = "none"]
    /\ UNCHANGED <<qvars, elem, out, issued, hvars, pvars>>
    /\ UNCHANGED <<broadcasts, lvars>>
    /\ UNCHANGED svars

\* std::terminate(): the process ends, and every thread with it
terminate == pc' = [t \in AllThreads |-> "terminated"]

\* run(): task() runs to its end and returns, or it throws: run() has no
\* handler, the exception leaves the thread's function and std::terminate is called
RunTask(w) ==
    /\ pc[w] = "exec"
    /\ \/ /\ runs' = [runs EXCEPT ![out[w][1]] = @ + 1]
          /\ pc' = [pc EXCEPT ![w] = "loop"]
          /\ out' = [out EXCEPT ![w] = <<>>]
       \/ /\ terminate
          /\ UNCHANGED <<runs, out>>
    /\ UNCHANGED <<qvars, op, elem, ret, issued, hvars,
                   shutdown, myThreads, idx, last, joinable, joins, clears, before>>
    /\ UNCHANGED <<broadcasts, lvars>>
    /\ UNCHANGED svars

\* submit(task): myTasks.put(task)
Submit(t) == issued < MaxTasks /\ Put(t)

\* a shutdownNow without the guard: it goes on to tear down whatever it finds
ShutdownCheckUnguarded(c) ==
    /\ pc[c] = "idle"
    /\ op' = [op EXCEPT ![c] = "shutdownNow"]
    /\ before' = [before EXCEPT ![c] = IF shutdown THEN {} ELSE Range(inserted)]
    /\ pc' = [pc EXCEPT ![c] = "sd_set"]
    /\ UNCHANGED <<qvars, elem, ret, out, issued, hvars,
                   shutdown, myThreads, idx, last, joinable, runs, joins, clears>>
    /\ UNCHANGED <<broadcasts, lvars>>
    /\ UNCHANGED svars

\* shutdownNow(): if (!shutdown)
ShutdownCheck(c) ==
    /\ pc[c] = "idle"
    /\ \A d \in Callers \ {c} : op[d] # "start"
    /\ op' = [op EXCEPT ![c] = "shutdownNow"]
    /\ before' = [before EXCEPT ![c] = IF shutdown THEN {} ELSE Range(inserted)]
    /\ IF shutdown
       THEN Returns(c, <<>>, "void")
       ELSE pc' = [pc EXCEPT ![c] = "sd_set"] /\ UNCHANGED <<ret, out>>
    /\ UNCHANGED <<qvars, elem, issued, hvars,
                   shutdown, myThreads, idx, last, joinable, runs, joins, clears>>
    /\ UNCHANGED <<broadcasts, lvars>>
    /\ UNCHANGED svars

\* shutdownNow(): shutdown = true
ShutdownSet(c) ==
    /\ pc[c] = "sd_set"
    /\ shutdown' = TRUE
    /\ pc' = [pc EXCEPT ![c] = "sd_stop"]
    /\ UNCHANGED <<qvars, op, elem, ret, out, issued, hvars,
                   myThreads, idx, last, joinable, runs, joins, clears, before>>
    /\ UNCHANGED <<broadcasts, lvars>>
    /\ UNCHANGED svars

\* shutdownNow(): myTasks.stop(), then the range-for over myThreads begins
ShutdownStop(c) ==
    /\ pc[c] = "sd_stop"
    /\ stop
    /\ pc' = [pc EXCEPT ![c] = "sd_join"]
    /\ idx' = [idx EXCEPT ![c] = 1]
    /\ last' = [last EXCEPT ![c] = Len(myThreads)]
    /\ UNCHANGED <<op, elem, ret, out, issued, hvars,
                   shutdown, myThreads, joinable, runs, joins, clears, before>>
    /\ UNCHANGED lvars
    /\ UNCHANGED svars

\* what the range-for reads at position i: the handle, or, when another
\* thread has cleared the vector meanwhile, a destroyed element: null or a
\* handle that was joined before the clear
Handles(i) ==
    IF i <= Len(myThreads)
    THEN {myThreads[i]}
    ELSE {null} \cup {w \in Workers : pc[w] = "finished" /\ ~joinable[w]}

\* shutdownNow(): one round of "if (thread) thread->join()", or the loop's end.
\* join returns once the thread has left run(); on a handle that is no longer
\* joinable it throws std::system_error, or returns when two joins raced.
ShutdownJoin(c) ==
    /\ pc[c] = "sd_join"
    /\ IF idx[c] > last[c]
       THEN /\ pc' = [pc EXCEPT ![c] = "sd_clear"]
            /\ idx' = [idx EXCEPT ![c] = 0]
            /\ last' = [last EXCEPT ![c] = 0]
            /\ UNCHANGED <<ret, out, joinable, joins>>
       ELSE \E h \in Handles(idx[c]) :
            IF h = null
            THEN /\ idx' = [idx EXCEPT ![c] = @ + 1]
                 /\ UNCHANGED <<pc, ret, out, last, joinable, joins>>
            ELSE /\ pc[h] = "finished"
                 /\ joins' = [joins EXCEPT ![h] = @ + 1]
                 /\ joinable' = [joinable EXCEPT ![h] = FALSE]
                 /\ \/ /\ idx' = [idx EXCEPT ![c] = @ + 1]
                       /\ UNCHANGED <<pc, ret, out, last>>
                    \/ /\ ~joinable[h]
                       /\ Returns(c, <<>>, "throw")
                       /\ idx' = [idx EXCEPT ![c] = 0]
                       /\ last' = [last EXCEPT ![c] = 0]
    /\ UNCHANGED <<qvars, op, elem, issued, hvars,
                   shutdown, myThreads, runs, clears, before>>
    /\ UNCHANGED <<broadcasts, lvars>>
    /\ UNCHANGED svars

\* shutdownNow(): myThreads.clear()
ShutdownClear(c) ==
    /\ pc[c] = "sd_clear"
    /\ myThreads' = <<>>
    /\ clears' = clears + 1
    /\ Returns(c, <<>>, "void")
    /\ UNCHANGED <<qvars, op, elem, issued, hvars,
                   shutdown, idx, last, joinable, runs, joins, before>>
    /\ UNCHANGED <<broadcasts, lvars>>
    /\ UNCHANGED svars

\* start(numThreads, maxTask): if (shutdown) { shutdown = false; makeThreads(numThreads);
StartCheck(c) ==
    /\ c \in Starters
    /\ pc[c] = "idle"
    /\ Quiet(c)
    /\ \E n \in 1..Len(WorkerSeq), m \in PoolCaps :
        /\ op' = [op EXCEPT ![c] = "start"]
        /\ elem' = [elem EXCEPT ![c] = <<n, m>>]
        /\ IF shutdown
           THEN /\ shutdown' = FALSE
                /\ makeThreads(n, [pc EXCEPT ![c] = "st_start"])
                /\ clears' = 0
                /\ UNCHANGED <<ret, out>>
           ELSE /\ Returns(c, <<>>, "void")
                /\ UNCHANGED <<shutdown, myThreads, joinable, joins, clears>>
    /\ UNCHANGED <<qvars, issued, hvars, idx, last, runs, before>>
    /\ UNCHANGED <<broadcasts, lvars>>
    /\ UNCHANGED svars

\* start(): myTasks.start()
StartQueue(c) ==
    /\ pc[c] = "st_start"
    /\ start
    /\ pc' = [pc EXCEPT ![c] = "st_setmax"]
    /\ UNCHANGED <<op, elem, ret, out, issued, hvars, pvars>>
    /\ UNCHANGED lvars
    /\ UNCHANGED svars

\* start(): myTasks.setMaxSize(maxTask) }
StartSetMax(c) ==
    /\ pc[c] = "st_setmax"
    /\ setMaxSize(elem[c][2])
    /\ lowered' = (lowered \/ elem[c][2] < Len(my_queue))
    /\ Returns(c, <<>>, "void")
    /\ UNCHANGED <<op, elem, issued, inserted, taken, bulk, pvars>>
    /\ UNCHANGED <<broadcasts, lvars>>
    /\ UNCHANGED svars

\* ThreadPool(numThreads, maxTask): myTasks(maxTask), shutdown(false), makeThreads(numThreads)
InitPool ==
    /\ InitQueue
    /\ queue_max_size \in PoolCaps
    /\ shutdown = FALSE
    /\ \E n \in 1..Len(WorkerSeq) :
        /\ myThreads = SubSeq(WorkerSeq, 1, n)
        /\ pc = [t \in AllThreads |->
                    IF t \in Range(SubSeq(WorkerSeq, 1, n)) THEN "loop"
                    ELSE IF t \in Submitters \cup Callers THEN "idle"
                    ELSE "absent"]
        /\ joinable = [w \in Workers |-> w \in Range(SubSeq(WorkerSeq, 1, n))]
    /\ InitNoLogger
    /\ InitNoSynchronousQueue

NextPool ==
    \/ \E t \in Submitters :
        \/ Submit(t)
        \/ Resume(t)
        \/ SpuriousWakeup(t)
        \/ Return(t)
    \/ \E w \in Workers :
        \/ RunCheck(w)
        \/ RunTake(w)
        \/ Resume(w)
        \/ SpuriousWakeup(w)
        \/ RunAfterTake(w)
        \/ RunTask(w)
    \/ \E c \in Callers :
        \/ ShutdownCheck(c)
        \/ ShutdownSet(c)
        \/ ShutdownStop(c)
        \/ ShutdownJoin(c)
        \/ ShutdownClear(c)
        \/ StartCheck(c)
        \/ StartQueue(c)
        \/ StartSetMax(c)
        \/ Return(c)

SpecPool == InitPool /\ [][NextPool]_vars

\* one step of worker w inside run()
WorkerStep(w) ==
    \/ RunCheck(w)
    \/ RunTake(w)
    \/ Resume(w)
    \/ RunAfterTake(w)
    \/ RunTask(w)

\* one step of caller c inside shutdownNow()
TeardownStep(c) ==
    \/ ShutdownSet(c)
    \/ ShutdownStop(c)
    \/ ShutdownJoin(c)
    \/ ShutdownClear(c)

\* one step of caller c inside start()
RestartStep(c) ==
    \/ StartQueue(c)
    \/ StartSetMax(c)

\* every thread that can run does run in the end: a worker goes on in run() (a
\* task that is executing ends), a caller goes on in shutdownNow() and in start()
FairPool ==
    /\ SpecPool
    /\ \A w \in Workers : WF_vars(WorkerStep(w))
    /\ \A c \in Callers : WF_vars(TeardownStep(c)) /\ WF_vars(RestartStep(c))

\* the pool with its methods called one after the other, by one thread: the
\* submitter and the workers run as before
NextSequential ==
    \/ \E t \in Submitters :
        \/ Submit(t)
        \/ Resume(t)
        \/ SpuriousWakeup(t)
        \/ Return(t)
    \/ \E w \in Workers :
        \/ RunCheck(w)
        \/ RunTake(w)
        \/ Resume(w)
        \/ SpuriousWakeup(w)
        \/ RunAfterTake(w)
        \/ RunTask(w)
    \/ \E c \in Starters :
        \/ ShutdownCheck(c)
        \/ ShutdownSet(c)
        \/ ShutdownStop(c)
        \/ ShutdownJoin(c)
        \/ ShutdownClear(c)
        \/ StartCheck(c)
        \/ StartQueue(c)
        \/ StartSetMax(c)
        \/ Return(c)

FairSequential ==
    /\ InitPool
    /\ [][NextSequential]_vars
    /\ \A w \in Workers : WF_vars(WorkerStep(w))
    /\ \A c \in Starters : WF_vars(TeardownStep(c)) /\ WF_vars(RestartStep(c))

\* the queue's threads get the mutex again once woken: a woken thread runs on
FairSpec == Spec /\ \A t \in Threads : WF_vars(Resume(t))

\* ------------------------------------------------------------------ Logger
\* One Logger object, the one my_logger points to, with its log_queue (the
\* queue above), its write_thread and the files it appends to.  write is
\* called by one thread; stop, start, setLogFilePath and setLevel by another,
\* one call after the other, so my_mutex (taken by setLogFilePath and
\* getLogFilePath only) is never contended and the write_thread, which does
\* not take it, sees every statement of setFileStream.
this == "L1"

\* the test with the order of the levels turned round
ignoredBelow(level) == level < my_level[this]

\* write(): if (level > my_level) return
ignored(level) == level > my_level[this]

\* write(level, log_msg): the level test
LogWriteCheck(l) ==
    /\ pc[l] = "idle"
    /\ issued < MaxItems
    /\ \E level \in Levels :
        /\ op' = [op EXCEPT ![l] = "write"]
        /\ lvl' = [lvl EXCEPT ![l] = level]
        /\ IF ignored(level)
           THEN Returns(l, <<>>, "void")
           ELSE pc' = [pc EXCEPT ![l] = "wr_put"] /\ UNCHANGED <<ret, out>>
    /\ UNCHANGED <<qvars, elem, issued, hvars, pvars, broadcasts, lstate>>
    /\ UNCHANGED svars

\* write(): log_queue.put(record), the records numbered by call
LogWritePut(l) ==
    /\ pc[l] = "wr_put"
    /\ issued' = issued + 1
    /\ putHelper(l, issued + 1)
    /\ UNCHANGED <<pvars, broadcasts, lvars>>
    /\ UNCHANGED svars

\* runWriteThread(): while (!need_to_stop)
LogRunCheck(w) ==
    /\ pc[w] = "loop"
    /\ pc' = [pc EXCEPT ![w] = IF logger_need_to_stop THEN "finished" ELSE "calling"]
    /\ UNCHANGED <<qvars, op, elem, ret, out, issued, hvars, pvars, broadcasts, lvars>>
    /\ UNCHANGED svars

\* runWriteThread(): log_queue.take(log)
LogRunTake(w) ==
    /\ pc[w] = "calling"
    /\ take(w, TRUE)
    /\ UNCHANGED <<issued, pvars, broadcasts, lvars>>
    /\ UNCHANGED svars

\* runWriteThread(): if (log_queue.take(log) && ...
LogAfterTake(w) ==
    /\ pc[w] = "done"
    /\ pc' = [pc EXCEPT ![w] = IF ret[w] = "true" THEN "lw_test" ELSE "loop"]
    /\ op' = [op EXCEPT ![w] = "none"]
    /\ ret' = [ret EXCEPT ![w] = "none"]
    /\ UNCHANGED <<qvars, elem, out, issued, hvars, pvars, broadcasts, lvars>>
    /\ UNCHANGED svars

\* runWriteThread(): ... && log_file_stream): with no stream the record is dropped
LogTest(w) ==
    /\ pc[w] = "lw_test"
    /\ IF log_file_stream = NoStream
       THEN /\ pc' = [pc EXCEPT ![w] = "loop"]
            /\ out' = [out EXCEPT ![w] = <<>>]
       ELSE /\ pc' = [pc EXCEPT ![w] = "lw_deref"]
            /\ UNCHANGED out
    /\ UNCHANGED <<qvars, op, elem, ret, issued, hvars, pvars, broadcasts, lvars>>
    /\ UNCHANGED svars

\* runWriteThread(): *log_file_stream, a second read of the pointer; when
\* setFileStream has reset it since the test, a null pointer is dereferenced
LogDeref(w) ==
    /\ pc[w] = "lw_deref"
    /\ IF log_file_stream = NoStream
       THEN terminate /\ UNCHANGED held
       ELSE pc' = [pc EXCEPT ![w] = "lw_append"] /\ held' = Live
    /\ UNCHANGED <<qvars, op, elem, ret, out, issued, hvars, pvars, broadcasts,
                   my_logger, created, my_level, my_log_file_path, log_file_stream,
                   write_thread, logger_need_to_stop, files, lvl>>
    /\ UNCHANGED svars

\* runWriteThread(): ... << log << std::endl on the ofstream it holds.  A
\* stream that is not open takes nothing.  On a stream that setFileStream has
\* destroyed meanwhile the write is undefined: it reaches the old file (the
\* write was under way when the file was closed), it is lost, or the process ends.
LogAppend(w) ==
    /\ pc[w] = "lw_append"
    /\ \/ /\ held = Live
          /\ files' = IF log_file_stream.open
                      THEN [files EXCEPT ![log_file_stream.path] = Append(@, out[w][1])]
                      ELSE files
          /\ pc' = [pc EXCEPT ![w] = "loop"]
       \/ /\ held.state = "destroyed" /\ held.open
          /\ files' = [files EXCEPT ![held.path] = Append(@, out[w][1])]
          /\ pc' = [pc EXCEPT ![w] = "loop"]
       \/ /\ held.state = "destroyed"
          /\ files' = files
          /\ pc' = [pc EXCEPT ![w] = "loop"]
       \/ /\ held.state = "destroyed"
          /\ files' = files
          /\ terminate
    /\ held' = NotHeld
    /\ out' = [out EXCEPT ![w] = <<>>]
    /\ UNCHANGED <<qvars, op, elem, ret, issued, hvars, pvars, broadcasts,
                   my_logger, created, my_level, my_log_file_path, log_file_stream,
                   write_thread, logger_need_to_stop, lvl>>
    /\ UNCHANGED svars

\* stop(): if (!need_to_stop)
LogStopCheck(l) ==
    /\ pc[l] = "idle"
    /\ op' = [op EXCEPT ![l] = "stop"]
    /\ before' = [before EXCEPT ![l] = IF logger_need_to_stop THEN {} ELSE Range(inserted)]
    /\ IF logger_need_to_stop
       THEN Returns(l, <<>>, "void")
       ELSE pc' = [pc EXCEPT ![l] = "ls_set"] /\ UNCHANGED <<ret, out>>
    /\ UNCHANGED <<qvars, elem, issued, hvars,
                   shutdown, myThreads, idx, last, joinable, runs, joins, clears,
                   broadcasts, lvars>>
    /\ UNCHANGED svars

\* stop(): need_to_stop = true
LogStopSet(l) ==
    /\ pc[l] = "ls_set"
    /\ logger_need_to_stop' = TRUE
    /\ pc' = [pc EXCEPT ![l] = "ls_stop"]
    /\ UNCHANGED <<qvars, op, elem, ret, out, issued, hvars, pvars, broadcasts,
                   my_logger, created, my_level, my_log_file_path, log_file_stream,
                   write_thread, files, held, lvl>>
    /\ UNCHANGED svars

\* stop(): log_queue.stop()
LogStopQueue(l) ==
    /\ pc[l] = "ls_stop"
    /\ stop
    /\ pc' = [pc EXCEPT ![l] = "ls_join"]
    /\ UNCHANGED <<op, elem, ret, out, issued, hvars, pvars, lvars>>
    /\ UNCHANGED svars

\* stop(): write_thread->join(), which returns once the thread has left
\* runWriteThread, then write_thread = nullptr
LogStopJoin(l) ==
    /\ pc[l] = "ls_join"
    /\ write_thread # null
    /\ pc[write_thread] = "finished"
    /\ write_thread' = null
    /\ Returns(l, <<>>, "void")
    /\ UNCHANGED <<qvars, op, elem, issued, hvars, pvars, broadcasts,
                   my_logger, created, my_level, my_log_file_path, log_file_stream,
                   logger_need_to_stop, files, held, lvl>>
    /\ UNCHANGED svars

\* start(): if (need_to_stop) { need_to_stop = false; write_thread = a new thread
LogStartCheck(l) ==
    /\ pc[l] = "idle"
    /\ op' = [op EXCEPT ![l] = "start"]
    /\ IF logger_need_to_stop
       THEN /\ logger_need_to_stop' = FALSE
            /\ write_thread' = LogWriter
            /\ pc' = [pc EXCEPT ![l] = "lg_queue", ![LogWriter] = "loop"]
            /\ UNCHANGED <<ret, out>>
       ELSE /\ Returns(l, <<>>, "void")
            /\ UNCHANGED <<logger_need_to_stop, write_thread>>
    /\ UNCHANGED <<qvars, elem, issued, hvars, pvars, broadcasts,
                   my_logger, created, my_level, my_log_file_path, log_file_stream,
                   files, held, lvl>>
    /\ UNCHANGED svars

\* start(): log_queue.start() }
LogStartQueue(l) ==
    /\ pc[l] = "lg_queue"
    /\ start
    /\ Returns(l, <<>>, "void")
    /\ UNCHANGED <<op, elem, issued, hvars, pvars, lvars>>
    /\ UNCHANGED svars

\* what becomes of the ofstream the writer holds when log_file_stream lets go of it
release ==
    IF held = Live
    THEN [state |-> "destroyed", path |-> log_file_stream.path, open |-> log_file_stream.open]
    ELSE held

\* setLogFilePath(log_file_path): the same path returns true; another one is stored
LogSetPath(l) ==
    /\ pc[l] = "idle"
    /\ \E p \in Paths :
        /\ op' = [op EXCEPT ![l] = "setLogFilePath"]
        /\ elem' = [elem EXCEPT ![l] = p]
        /\ IF my_log_file_path = p
           THEN Returns(l, <<>>, "true") /\ UNCHANGED my_log_file_path
           ELSE /\ my_log_file_path' = p
                /\ pc' = [pc EXCEPT ![l] = "sp_new"]
                /\ UNCHANGED <<ret, out>>
    /\ UNCHANGED <<qvars, issued, hvars, pvars, broadcasts,
                   my_logger, created, my_level, log_file_stream,
                   write_thread, logger_need_to_stop, files, held, lvl>>
    /\ UNCHANGED svars

\* setFileStream(): log_file_stream = std::make_shared<std::ofstream>(), which
\* destroys (and so closes) the stream it pointed to
LogSetPathNew(l) ==
    /\ pc[l] = "sp_new"
    /\ log_file_stream' = [path |-> my_log_file_path, open |-> FALSE]
    /\ held' = release
    /\ pc' = [pc EXCEPT ![l] = "sp_open"]
    /\ UNCHANGED <<qvars, op, elem, ret, out, issued, hvars, pvars, broadcasts,
                   my_logger, created, my_level, my_log_file_path,
                   write_thread, logger_need_to_stop, files, lvl>>
    /\ UNCHANGED svars

\* setFileStream(): open(log_file_path, app); if it is not open,
\* log_file_stream = nullptr and false is returned, else true
LogSetPathOpen(l) ==
    /\ pc[l] = "sp_open"
    /\ IF my_log_file_path \in Openable
       THEN /\ log_file_stream' = [log_file_stream EXCEPT !.open = TRUE]
            /\ Returns(l, <<>>, "true")
            /\ UNCHANGED held
       ELSE /\ log_file_stream' = NoStream
            /\ held' = release
            /\ Returns(l, <<>>, "false")
    /\ UNCHANGED <<qvars, op, elem, issued, hvars, pvars, broadcasts,
                   my_logger, created, my_level, my_log_file_path,
                   write_thread, logger_need_to_stop, files, lvl>>
    /\ UNCHANGED svars

\* setLevel(level): my_level = level
LogSetLevel(l) ==
    /\ pc[l] = "idle"
    /\ \E level \in Levels : my_level' = [my_level EXCEPT ![this] = level]
    /\ UNCHANGED <<qvars, tvars, issued, hvars, pvars, broadcasts,
                   my_logger, created, my_log_file_path, log_file_stream,
                   write_thread, logger_need_to_stop, files, held, lvl>>
    /\ UNCHANGED svars

\* Logger(level): my_level(level), log_queue(100), my_log_file_path("out.log"),
\* need_to_stop(false), setFileStream("out.log") has opened the file, and the
\* write_thread is about to enter runWriteThread
InitLoggerAt(level) ==
    /\ InitQueue
    /\ queue_max_size = LogQueueSize
    /\ pc = [t \in AllThreads |->
                IF t = LogWriter THEN "loop"
                ELSE IF t \in LogClients \cup LogAdmins THEN "idle"
                ELSE "absent"]
    /\ InitNoPool
    /\ my_logger = this
    /\ created = 1
    /\ my_level = [i \in Instances |-> IF i = this THEN level ELSE DEBUG]
    /\ my_log_file_path = DefaultPath
    /\ log_file_stream = [path |-> DefaultPath, open |-> TRUE]
    /\ write_thread = LogWriter
    /\ logger_need_to_stop = FALSE
    /\ files = [p \in Paths |-> <<>>]
    /\ held = NotHeld
    /\ lvl = [t \in AllThreads |-> NoLevel]
    /\ InitNoSynchronousQueue

\* the logger as getLogger() with its default argument creates it
InitLogger == InitLoggerAt(DEBUG)

\* the logger's life: records written while it is stopped, started and pointed
\* at other files
NextLogger ==
    \/ \E l \in LogClients :
        \/ LogWriteCheck(l)
        \/ LogWritePut(l)
        \/ Return(l)
    \/ \E w \in {LogWriter} :
        \/ LogRunCheck(w)
        \/ LogRunTake(w)
        \/ Resume(w)
        \/ SpuriousWakeup(w)
        \/ LogAfterTake(w)
        \/ LogTest(w)
        \/ LogDeref(w)
        \/ LogAppend(w)
    \/ \E l \in LogAdmins :
        \/ LogStopCheck(l)
        \/ LogStopSet(l)
        \/ LogStopQueue(l)
        \/ LogStopJoin(l)
        \/ LogStartCheck(l)
        \/ LogStartQueue(l)
        \/ LogSetPath(l)
        \/ LogSetPathNew(l)
        \/ LogSetPathOpen(l)
        \/ Return(l)

SpecLogger == InitLogger /\ [][NextLogger]_vars

\* a running logger created with any threshold
InitLevels == \E level \in Levels : InitLoggerAt(level)

\* the running logger: records written at every level against every
\* threshold, the write_thread appending them
NextLevels ==
    \/ \E l \in LogClients :
        \/ LogWriteCheck(l)
        \/ LogWritePut(l)
        \/ Return(l)
    \/ \E w \in {LogWriter} :
        \/ LogRunCheck(w)
        \/ LogRunTake(w)
        \/ Resume(w)
        \/ SpuriousWakeup(w)
        \/ LogAfterTake(w)
        \/ LogTest(w)
        \/ LogDeref(w)
        \/ LogAppend(w)
    \/ \E l \in LogAdmins :
        \/ LogSetLevel(l)

SpecLevels == InitLevels /\ [][NextLevels]_vars

\* --------------------------------------------- getLogger / destroyLogger
\* The static my_logger and the Logger objects it has pointed to, as far as
\* getLogger and destroyLogger touch them: which object, and its threshold.
\* Neither function takes a lock; each read and each write of my_logger is
\* taken as one step (the accesses race, which the language leaves undefined).

\* getLogger(level): if (my_logger == nullptr)
GetCheck(g) ==
    /\ pc[g] = "idle"
    /\ \E level \in Levels :
        /\ op' = [op EXCEPT ![g] = "getLogger"]
        /\ lvl' = [lvl EXCEPT ![g] = level]
    /\ pc' = [pc EXCEPT ![g] = IF my_logger = null THEN "gl_new" ELSE "gl_level"]
    /\ UNCHANGED <<qvars, elem, ret, out, issued, hvars, pvars, broadcasts, lstate>>
    /\ UNCHANGED svars

\* getLogger(): new Logger(level), one more object (and write_thread)
GetNew(g) ==
    /\ pc[g] = "gl_new"
    /\ created' = created + 1
    /\ my_level' = [my_level EXCEPT ![InstanceSeq[created + 1]] = lvl[g]]
    /\ out' = [out EXCEPT ![g] = <<InstanceSeq[created + 1]>>]
    /\ pc' = [pc EXCEPT ![g] = "gl_assign"]
    /\ UNCHANGED <<qvars, op, elem, ret, issued, hvars, pvars, broadcasts,
                   my_logger, my_log_file_path, log_file_stream,
                   write_thread, logger_need_to_stop, files, held, lvl>>
    /\ UNCHANGED svars

\* getLogger(): my_logger = std::shared_ptr<Logger>(the new object)
GetAssign(g) ==
    /\ pc[g] = "gl_assign"
    /\ my_logger' = out[g][1]
    /\ pc' = [pc EXCEPT ![g] = "gl_ret"]
    /\ UNCHANGED <<qvars, op, elem, ret, out, issued, hvars, pvars, broadcasts,
                   created, my_level, my_log_file_path, log_file_stream,
                   write_thread, logger_need_to_stop, files, held, lvl>>
    /\ UNCHANGED svars

\* getLogger(): else if (my_logger->my_level != level) my_logger->setLevel(level);
\* a destroyLogger since the test has left a null pointer to dereference
GetLevel(g) ==
    /\ pc[g] = "gl_level"
    /\ IF my_logger = null
       THEN terminate /\ UNCHANGED my_level
       ELSE /\ my_level' = [my_level EXCEPT ![my_logger] = lvl[g]]
            /\ pc' = [pc EXCEPT ![g] = "gl_ret"]
    /\ UNCHANGED <<qvars, op, elem, ret, out, issued, hvars, pvars, broadcasts,
                   my_logger, created, my_log_file_path, log_file_stream,
                   write_thread, logger_need_to_stop, files, held, lvl>>
    /\ UNCHANGED svars

\* getLogger(): return my_logger
GetReturn(g) ==
    /\ pc[g] = "gl_ret"
    /\ Returns(g, <<my_logger>>, "instance")
    /\ UNCHANGED <<qvars, op, elem, issued, hvars, pvars, broadcasts, lvars>>
    /\ UNCHANGED svars

\* destroyLogger(): my_logger = nullptr
DestroyLogger(g) ==
    /\ pc[g] = "idle"
    /\ my_logger' = null
    /\ created' = 0
    /\ UNCHANGED <<qvars, tvars, issued, hvars, pvars, broadcasts,
                   my_level, my_log_file_path, log_file_stream,
                   write_thread, logger_need_to_stop, files, held, lvl>>
    /\ UNCHANGED svars

\* the process before its first getLogger call
InitSingleton ==
    /\ InitQueue
    /\ queue_max_size = LogQueueSize
    /\ pc = [t \in AllThreads |-> IF t \in Getters THEN "idle" ELSE "absent"]
    /\ InitNoPool
    /\ InitNoLogger
    /\ InitNoSynchronousQueue

NextSingleton ==
    \E g \in Getters :
        \/ GetCheck(g)
        \/ GetNew(g)
        \/ GetAssign(g)
        \/ GetLevel(g)
        \/ GetReturn(g)
        \/ DestroyLogger(g)
        \/ Return(g)

SpecSingleton == InitSingleton /\ [][NextSingleton]_vars

\* ------------------------------------------------------- LOG_... macros
\* LOG_FATAL(m) .. LOG_DEBUG(m) expand to Logger::getLogger()->write(level, m):
\* getLogger is called with its default argument, Level::DEBUG.  The logger
\* exists already (its threshold has been set), so getLogger takes its else
\* branch: if (my_logger->my_level != DEBUG) my_logger->setLevel(DEBUG).
MacroGetLogger(l) ==
    /\ pc[l] = "idle"
    /\ issued < MaxItems
    /\ my_logger # null
    /\ \E level \in Levels :
        /\ op' = [op EXCEPT ![l] = "LOG"]
        /\ lvl' = [lvl EXCEPT ![l] = level]
    /\ my_level' = [my_level EXCEPT ![my_logger] = DEBUG]
    /\ pc' = [pc EXCEPT ![l] = "mc_write"]
    /\ UNCHANGED <<qvars, elem, ret, out, issued, hvars, pvars, broadcasts,
                   my_logger, created, my_log_file_path, log_file_stream,
                   write_thread, logger_need_to_stop, files, held>>
    /\ UNCHANGED svars

\* ->write(level, m): the level test of write, on the logger getLogger returned
MacroWrite(l) ==
    /\ pc[l] = "mc_write"
    /\ IF ignored(lvl[l])
       THEN Returns(l, <<>>, "void")
       ELSE pc' = [pc EXCEPT ![l] = "wr_put"] /\ UNCHANGED <<ret, out>>
    /\ UNCHANGED <<qvars, op, elem, issued, hvars, pvars, broadcasts, lvars>>
    /\ UNCHANGED svars

\* a logger with any threshold, logged to by write and by the macros, its
\* threshold set by setLevel and by getLogger(level)
NextMacros ==
    \/ \E l \in LogClients :
        \/ LogWriteCheck(l)
        \/ MacroGetLogger(l)
        \/ MacroWrite(l)
        \/ LogWritePut(l)
        \/ Return(l)
    \/ \E w \in {LogWriter} :
        \/ LogRunCheck(w)
        \/ LogRunTake(w)
        \/ Resume(w)
        \/ SpuriousWakeup(w)
        \/ LogAfterTake(w)
        \/ LogTest(w)
        \/ LogDeref(w)
        \/ LogAppend(w)
    \/ \E l \in LogAdmins :
        \/ LogSetLevel(l)
        \/ GetCheck(l)
        \/ GetLevel(l)
        \/ GetReturn(l)
        \/ Return(l)

SpecMacros == InitLevels /\ [][NextMacros]_vars

\* ------------------------------------------------- stop without a restart
\* Each of the three objects on its own (a queue, a pool, a logger), used by
\* its threads in every way except start: what has been stopped stays stopped.
InitStopOnly == Init \/ InitPool \/ InitLogger

NextStopOnly ==
    \/ \E t \in Threads :
        \/ Put(t)
        \/ Take(t)
        \/ TakeAll(t)
        \/ Stop(t)
        \/ SetMaxSize(t)
        \/ Clear(t)
    \/ \E t \in Threads \cup Submitters \cup Workers \cup {LogWriter} :
        \/ Resume(t)
        \/ SpuriousWakeup(t)
    \/ \E t \in Threads \cup Submitters \cup Callers \cup LogClients \cup LogAdmins :
        \/ Return(t)
    \/ \E t \in Submitters :
        \/ Submit(t)
    \/ \E w \in Workers :
        \/ RunCheck(w)
        \/ RunTake(w)
        \/ RunAfterTake(w)
        \/ RunTask(w)
    \/ \E c \in Callers :
        \/ ShutdownCheck(c)
        \/ ShutdownSet(c)
        \/ ShutdownStop(c)
        \/ ShutdownJoin(c)
        \/ ShutdownClear(c)
    \/ \E l \in LogClients :
        \/ LogWriteCheck(l)
        \/ LogWritePut(l)
    \/ \E w \in {LogWriter} :
        \/ LogRunCheck(w)
        \/ LogRunTake(w)
        \/ LogAfterTake(w)
        \/ LogTest(w)
        \/ LogDeref(w)
        \/ LogAppend(w)
    \/ \E l \in LogAdmins :
        \/ LogStopCheck(l)
        \/ LogStopSet(l)
        \/ LogStopQueue(l)
        \/ LogStopJoin(l)

SpecStopOnly == InitStopOnly /\ [][NextStopOnly]_vars

\* ------------------------------------------------------------- properties
\* thread t runs putHelper in this step (a call, or a woken put going on)
PutStep(t) ==
    \/ pc[t] = "idle" /\ pc'[t] # "idle" /\ op'[t] = "put"
    \/ /\ pc[t] = "waiting" /\ op[t] = "put" /\ t \notin not_full
       /\ (pc'[t] = "done" \/ t \in not_full')

\* thread t runs take in this step (a call, or a woken take going on)
TakeStep(t) ==
    \/ pc[t] = "idle" /\ pc'[t] # "idle" /\ op'[t] = "take"
    \/ /\ pc[t] = "waiting" /\ op[t] = "take" /\ t \notin not_empty
       /\ (pc'[t] = "done" \/ t \in not_empty')

BlockedInPut(t) == pc[t] = "waiting" /\ op[t] = "put"

\* C1: with no clear and no takeAll, the items inserted so far are exactly the
\* items successful takes returned, in that order, followed by the queue's
\* contents: takes return a prefix of the insertion order, nothing is lost,
\* duplicated or reordered.
C1_Fifo == ~bulk => inserted = taken \o my_queue

\* two takes have succeeded after puts that were inserted out of call order
C1_Witness ==
    /\ ~bulk
    /\ Len(taken) >= 2
    /\ Len(inserted) = MaxItems
    /\ inserted[1] > inserted[2]

\* C2 as stated: whenever the queue is not stopped, 0 <= length <= maxSize.
C2_LengthWithinCapacity ==
    ~need_to_stop => (0 <= Len(my_queue) /\ Len(my_queue) <= queue_max_size)

\* C2 amended: 0 <= length <= maxSize in every state reached without a
\* setMaxSize call that set the capacity below the length of that moment,
\* whether the queue is stopped or not.
C2_LengthWithinCapacityUnlessLowered ==
    ~lowered => (0 <= Len(my_queue) /\ Len(my_queue) <= queue_max_size)

\* a put is blocked on a queue filled to a capacity that setMaxSize has set
C2_Witness ==
    /\ ~lowered
    /\ Len(my_queue) = queue_max_size
    /\ queue_max_size = MaxCap
    /\ \E t \in Threads : BlockedInPut(t) /\ t \in not_full
    /\ need_to_stop = FALSE

\* C3: a thread that is inside a wait loop when the queue is stopped
\* eventually leaves the loop (its call returns).
C3_StopReleasesWaiters ==
    \A t \in Threads : (pc[t] = "waiting" /\ need_to_stop) ~> (pc[t] # "waiting")

\* C4: a put that runs while the queue is stopped returns in that step and
\* leaves contents, capacity and stopped flag as they were.
C4_PutOnStoppedQueue ==
    [][\A t \in Threads :
        (need_to_stop /\ PutStep(t)) =>
            /\ pc'[t] = "done"
            /\ my_queue' = my_queue
            /\ queue_max_size' = queue_max_size
            /\ need_to_stop' = need_to_stop]_vars

\* a put has returned on a stopped, partly filled queue without inserting
C4_Witness ==
    \E t \in Threads :
        /\ need_to_stop
        /\ pc[t] = "done" /\ op[t] = "put"
        /\ \A i \in 1..Len(inserted) : inserted[i] # elem[t]
        /\ 0 < Len(my_queue) /\ Len(my_queue) < queue_max_size

\* C5: a take that runs while the queue is stopped and not empty returns true
\* with the head and removes it.
C5_TakeDrainsStoppedQueue ==
    [][\A t \in Threads :
        (need_to_stop /\ my_queue # <<>> /\ TakeStep(t)) =>
            /\ pc'[t] = "done"
            /\ ret'[t] = "true"
            /\ out'[t] = <<Head(my_queue)>>
            /\ my_queue' = Tail(my_queue)]_vars

\* C6: setMaxSize removes no item, and once the capacity has been set below
\* the length, a put on the running queue with length >= capacity blocks
\* without inserting.
C6_PutBlocksAboveLoweredCapacity ==
    [][/\ (queue_max_size' # queue_max_size => my_queue' = my_queue)
       /\ \A t \in Threads :
            (lowered /\ ~need_to_stop /\ Len(my_queue) >= queue_max_size /\ PutStep(t)) =>
                (pc'[t] = "waiting" /\ my_queue' = my_queue)]_vars

\* C7: no thread stays blocked in put forever while the queue stays not
\* stopped and below capacity.
C7_NoProducerBlockedWithRoom ==
    \A t \in Threads :
        ~<>[](BlockedInPut(t) /\ ~need_to_stop /\ Len(my_queue) < queue_max_size)

\* caller c's shutdownNow returns in this step
ShutdownReturns(c) ==
    pc[c] # "done" /\ pc'[c] = "done" /\ op'[c] = "shutdownNow" /\ ret'[c] = "void"

\* C8: once a shutdownNow call made on a running pool has returned, every
\* task whose submit had returned before the call has been run exactly once.
C8_SubmittedTasksRunBeforeShutdownReturns ==
    \A c \in Callers :
        (pc[c] = "done" /\ op[c] = "shutdownNow" /\ ret[c] = "void") =>
            \A k \in before[c] : runs[k] = 1

\* C9: at the return of any shutdownNow call no worker is inside run() and
\* every worker handle has been joined.
C9_ShutdownIsBarrier ==
    [][\A c \in Callers :
        ShutdownReturns(c) =>
            \A w \in Workers : pc'[w] \in {"absent", "finished"} /\ ~joinable'[w]]_vars

\* C10: each worker handle is joined at most once and myThreads is cleared at
\* most once per shutdown.
C10_SingleTeardown ==
    /\ \A w \in Workers : joins[w] <= 1
    /\ clears <= 1

\* thread t's stop() call runs in this step
StopStep(t) == pc[t] = "idle" /\ pc'[t] = "done" /\ op'[t] = "stop"

\* thread t's start() call runs in this step
StartStep(t) == pc[t] = "idle" /\ pc'[t] = "done" /\ op'[t] = "start"

\* C11: of the stop() calls made by several threads on a running queue exactly
\* one sets the flag and broadcasts (one broadcast while the queue is stopped,
\* none while it runs); it empties both wait sets and leaves contents and
\* capacity alone; a call that finds the queue stopped changes nothing.
C11_ConcurrentStopOnce ==
    /\ [](broadcasts = IF need_to_stop THEN 1 ELSE 0)
    /\ [][\A t \in Threads :
            StopStep(t) =>
                IF need_to_stop
                THEN UNCHANGED qvars
                ELSE /\ need_to_stop'
                     /\ not_full' = {} /\ not_empty' = {}
                     /\ my_queue' = my_queue
                     /\ queue_max_size' = queue_max_size]_vars

\* both threads' stop() calls have run, neither has returned to its caller yet,
\* and the queue holds items
C11_Witness ==
    /\ \A t \in Threads : pc[t] = "done" /\ op[t] = "stop"
    /\ need_to_stop
    /\ broadcasts = 1
    /\ my_queue # <<>>

\* the worker threads that exist and have not left run()
LiveWorkers == {w \in Workers : pc[w] \notin {"absent", "finished", "terminated"}}

\* C12: a task that throws does not end the worker: as long as the pool is not
\* shut down, the live workers are as many as the last start (or the
\* constructor) created.
C12_WorkersSurviveTaskFailure ==
    ~shutdown => Cardinality(LiveWorkers) = Len(myThreads)

\* C14: a start(numThreads, maxTask) call on a running pool returns at once
\* and leaves the workers, the capacity, the contents and both stopped flags
\* as they were; a call on a shut-down pool returns with exactly numThreads
\* live workers, all of them in myThreads, the queue running and its capacity
\* equal to maxTask.
C14_StartOnlyWhenShutDown ==
    [][\A c \in Starters :
        /\ (pc[c] = "idle" /\ op'[c] = "start" /\ ~shutdown) =>
                /\ pc'[c] = "done"
                /\ LiveWorkers' = LiveWorkers
                /\ UNCHANGED <<myThreads, my_queue, queue_max_size, need_to_stop, shutdown>>
        /\ (pc[c] = "st_setmax" /\ pc'[c] = "done") =>
                /\ Cardinality(LiveWorkers') = elem[c][1]
                /\ Range(myThreads') = LiveWorkers'
                /\ ~need_to_stop'
                /\ ~shutdown'
                /\ queue_max_size' = elem[c][2]]_vars

\* start(2, maxTask) has returned on a pool whose queue was stopped before (a
\* submit made meanwhile was dropped): two workers live, the queue runs again
C14_Witness ==
    \E c \in Starters, s \in Submitters :
        /\ pc[c] = "done" /\ op[c] = "start"
        /\ pc[s] = "done" /\ op[s] = "put" /\ elem[s] \notin Range(inserted)
        /\ ~need_to_stop /\ ~shutdown
        /\ Cardinality(LiveWorkers) = 2 /\ elem[c][1] = 2
        /\ queue_max_size = elem[c][2]

\* C15: stop() and start() leave contents, order and capacity alone and
\* start() leaves the queue running, so stop() then start() gives back the
\* running queue there was; start() on a running queue changes nothing; and on
\* a running queue, however often it has been stopped and started, a put
\* blocks when the length equals the capacity and appends otherwise, and a
\* take blocks (or, non-blocking, returns false) when the queue is empty and
\* returns the head otherwise.
C15_StopStartRestores ==
    [][\A t \in Threads :
        /\ (StopStep(t) \/ StartStep(t)) =>
                (my_queue' = my_queue /\ queue_max_size' = queue_max_size)
        /\ StartStep(t) =>
                (~need_to_stop' /\ (~need_to_stop => UNCHANGED qvars))
        /\ (PutStep(t) /\ ~need_to_stop) =>
                IF Len(my_queue) = queue_max_size
                THEN pc'[t] = "waiting" /\ t \in not_full' /\ my_queue' = my_queue
                ELSE pc'[t] = "done" /\ my_queue' = Append(my_queue, elem'[t])
        /\ (TakeStep(t) /\ ~need_to_stop) =>
                IF my_queue = <<>>
                THEN /\ my_queue' = my_queue
                     /\ \/ pc'[t] = "waiting" /\ t \in not_empty'
                        \/ pc'[t] = "done" /\ ret'[t] = "false"
                ELSE /\ pc'[t] = "done" /\ ret'[t] = "true"
                     /\ out'[t] = <<Head(my_queue)>>
                     /\ my_queue' = Tail(my_queue)]_vars

\* a put made while the queue was stopped was dropped; the queue has been
\* started again since, still holding the item it held, and the other thread's
\* put has appended behind it
C15_Witness ==
    \E t, u \in Threads :
        /\ t # u
        /\ pc[t] = "done" /\ op[t] = "put" /\ elem[t] \notin Range(inserted)
        /\ ~need_to_stop
        /\ pc[u] = "done" /\ op[u] = "put"
        /\ Len(my_queue) >= 2
        /\ my_queue[1] < elem[t]
        /\ my_queue[Len(my_queue)] = elem[u] /\ elem[u] > elem[t]

\* thread t runs takeAll in this step (a call, or a woken takeAll going on)
TakeAllStep(t) ==
    \/ pc[t] = "idle" /\ pc'[t] # "idle" /\ op'[t] = "takeAll"
    \/ /\ pc[t] = "waiting" /\ op[t] = "takeAll" /\ t \notin not_empty
       /\ (pc'[t] = "done" \/ t \in not_empty')

\* C16: a takeAll that returns true hands over, in that one step, the whole
\* contents in queue order and leaves the queue empty; a takeAll that returns
\* false hands over nothing and leaves the queue as it was, which is what a
\* call on an empty queue that does not wait does, and what a takeAll that
\* wakes on a stopped queue does.
C16_TakeAllMovesEverything ==
    [][\A t \in Threads :
        TakeAllStep(t) =>
            /\ (pc'[t] = "done" /\ ret'[t] = "true") =>
                    /\ my_queue # <<>>
                    /\ out'[t] = my_queue
                    /\ my_queue' = <<>>
            /\ (pc'[t] = "done" /\ ret'[t] = "false") =>
                    (out'[t] = <<>> /\ my_queue' = my_queue)
            /\ (pc[t] = "idle" /\ pc'[t] = "done" /\ my_queue = <<>>) =>
                    ret'[t] = "false"
            /\ (pc[t] = "waiting" /\ need_to_stop) =>
                    (pc'[t] = "done" /\ ret'[t] = "false")
            /\ pc'[t] = "waiting" => my_queue' = my_queue]_vars

\* a takeAll has returned two items, the one put later by call order first
\* (it was inserted first), and the other thread's put has since gone into
\* the emptied queue
C16_Witness ==
    \E t, u \in Threads :
        /\ pc[t] = "done" /\ op[t] = "takeAll" /\ ret[t] = "true"
        /\ Len(out[t]) = 2 /\ out[t][1] > out[t][2]
        /\ pc[u] = "done" /\ op[u] = "put"
        /\ my_queue = <<elem[u]>>

\* C17: with FATAL < ERROR < WARN < INFO < DEBUG, a write(level, msg) whose
\* level is above the threshold returns at once and leaves the queue as it
\* was; one whose level is at or below the threshold goes on to put, and that
\* put, on a running queue that is not full, appends exactly one record: the
\* record of this call, at the tail.
C17_WriteFiltersByLevel ==
    [][\A l \in LogClients :
        /\ (pc[l] = "idle" /\ op'[l] = "write") =>
                IF lvl'[l] <= my_level[this]
                THEN pc'[l] = "wr_put" /\ UNCHANGED qvars
                ELSE pc'[l] = "done" /\ UNCHANGED qvars
        /\ (pc[l] = "wr_put" /\ pc'[l] # "wr_put"
                /\ ~need_to_stop /\ Len(my_queue) # queue_max_size) =>
                /\ pc'[l] = "done"
                /\ my_queue' = Append(my_queue, issued')
                /\ elem'[l] = issued'
                /\ issued' = issued + 1]_vars

\* with the threshold at WARN, a write at ERROR has put its record in the queue
C17_Witness ==
    \E l \in LogClients :
        /\ my_level[this] = WARN
        /\ lvl[l] = ERROR
        /\ pc[l] = "done" /\ op[l] = "put"
        /\ elem[l] \in Range(my_queue)
        /\ ~need_to_stop

\* the last setLogFilePath call that changed the path has returned true: no
\* call is under way and the stream is open on my_log_file_path
Repointed ==
    /\ \A l \in LogAdmins : pc[l] \notin {"sp_new", "sp_open"}
    /\ log_file_stream.open
    /\ log_file_stream.path = my_log_file_path

\* C18: once setLogFilePath has returned true for another path, whatever the
\* write_thread appends goes to the file of that path and to no other file.
C18_AppendsGoToNewFile ==
    [][Repointed =>
        \A p \in Paths : files'[p] # files[p] => p = my_log_file_path]_vars

\* C20: when stop() has returned, every record that write() had enqueued when
\* stop() was called is in the log file (the stream being open on "out.log").
C20_StopWritesEverything ==
    \A l \in LogAdmins :
        (/\ pc[l] = "done" /\ op[l] = "stop" /\ ret[l] = "void"
         /\ log_file_stream = [path |-> DefaultPath, open |-> TRUE]) =>
            \A r \in before[l] : r \in Range(files[DefaultPath])

\* C19: between two destroyLogger calls at most one Logger object is
\* constructed, whatever threads call getLogger and however they interleave.
C19_OneInstance == created <= 1

\* caller c's shutdownNow() call begins in this step
ShutdownStep(c) == pc[c] = "idle" /\ pc'[c] # "idle" /\ op'[c] = "shutdownNow"

\* thread l's Logger::stop() call begins in this step
LogStopStep(l) == pc[l] = "idle" /\ pc'[l] # "idle" /\ op'[l] = "stop"

\* C13: a stop operation repeated after an earlier one has returned, with no
\* start in between, is a no-op: a SyncQueue::stop on a stopped queue, a
\* ThreadPool::shutdownNow on a shut-down pool (no other call under way) and a
\* Logger::stop on a stopped logger each return in the step that tests the
\* flag, join no thread, and leave flag, queue contents, capacity, wait sets
\* and thread handles as they were.
C13_RepeatedStopIsNoOp ==
    [][/\ \A t \in Threads :
            (StopStep(t) /\ need_to_stop) =>
                UNCHANGED <<qvars, broadcasts>>
       /\ \A c \in Callers :
            (ShutdownStep(c) /\ shutdown /\ Quiet(c)) =>
                /\ pc'[c] = "done"
                /\ UNCHANGED <<qvars, broadcasts, shutdown, myThreads,
                               joinable, joins, clears>>
       /\ \A l \in LogAdmins :
            (LogStopStep(l) /\ logger_need_to_stop) =>
                /\ pc'[l] = "done"
                /\ UNCHANGED <<qvars, broadcasts, lstate>>]_vars

\* the logger took a record before it was stopped, and the stop() call that
\* has just run found it stopped already: the writer is joined and the handle
\* is null since the first call
C13_Witness ==
    /\ \E l \in LogAdmins :
        /\ pc[l] = "done" /\ op[l] = "stop"
        /\ before[l] = {}
    /\ inserted # <<>>
    /\ logger_need_to_stop
    /\ need_to_stop
    /\ write_thread = null

\* thread l's logging call (write, or a LOG_... macro) begins in this step
LogCallStep(l) == pc[l] = "idle" /\ pc'[l] # "idle" /\ op'[l] \in {"write", "LOG"}

\* C21: a logging call, made directly or through a LOG_... macro, whose level
\* is less severe than the threshold that setLevel or getLogger(level) has set
\* is ignored: it returns without going on to put, and the threshold is the
\* same afterwards.
C21_BelowThresholdIgnored ==
    [][\A l \in LogClients :
        (LogCallStep(l) /\ lvl'[l] > my_level[this]) =>
            /\ pc'[l] = "done"
            /\ my_level' = my_level
            /\ UNCHANGED qvars]_vars

\* C22: when setLogFilePath(p) has returned true, log_file_stream is an open
\* stream on p (so that the records written next are appended to p), whatever
\* setLogFilePath calls came before, a failed one with the same p included.
C22_TrueMeansOpenOnPath ==
    \A l \in LogAdmins :
        (pc[l] = "done" /\ op[l] = "setLogFilePath" /\ ret[l] = "true") =>
            log_file_stream = [path |-> elem[l], open |-> TRUE]

\* caller c is inside shutdownNow() on a pool it found running
InTeardown(c) == pc[c] \in {"sd_set", "sd_stop", "sd_join", "sd_clear"}

\* C23: a shutdownNow() call on a running pool, made while no other thread
\* calls shutdownNow, returns in the end, whatever the workers (asleep in take,
\* between two iterations, executing a task) and the producers do and however
\* often the pool is restarted afterwards; a task that throws ends the process
\* instead.
C23_ShutdownReturns ==
    \A c \in Callers :
        [](\A d \in Callers \ {c} : op[d] # "shutdownNow") =>
            (InTeardown(c) ~>
                \/ pc[c] = "done" /\ op[c] = "shutdownNow" /\ ret[c] = "void"
                \/ pc[c] = "terminated")

\* a shutdownNow() call, the only one made since the pool was last started,
\* has returned: both workers have been joined once, the vector is cleared
\* and a task that was submitted is still in the stopped queue
C23_Witness ==
    \E c \in Callers :
        /\ pc[c] = "done" /\ op[c] = "shutdownNow" /\ ret[c] = "void"
        /\ \A d \in Callers \ {c} : op[d] # "shutdownNow"
        /\ \A w \in Workers : joins[w] = 1 /\ pc[w] = "finished"
        /\ clears = 1
        /\ need_to_stop
        /\ my_queue # <<>>

\* a shutdownNow() call has torn the pool down and returned, no other is under
\* way, and start() has not been called since
TornDown ==
    /\ shutdown
    /\ clears >= 1
    /\ \A c \in Callers : ~InTeardown(c)

C25_SameStateMachine ==
    /\ myQueue = my_queue
    /\ queueMaxSize = queue_max_size
    /\ needToStop = need_to_stop
    /\ notEmpty = not_empty
    /\ notFull = not_full
    /\ \A t \in Threads :
        /\ pcS[t] = pc[t]
        /\ retS[t] = ret[t]
        /\ outS[t] = out[t]

\* on both queues, full at their capacity, one thread is blocked in put while
\* the other has just taken the head from each
C25_Witness ==
    \E t, u \in Threads :
        /\ pc[t] = "waiting" /\ pcS[t] = "waiting" /\ op[t] = "put"
        /\ pc[u] = "done" /\ pcS[u] = "done" /\ op[u] = "take"
        /\ ret[u] = "true" /\ retS[u] = "true"
        /\ out[u] # <<>> /\ outS[u] = out[u]
        /\ my_queue # <<>> /\ myQueue = my_queue

====
